---- MODULE Spec2Model ----
(***************************************************************************)
(* State-machine model of src/app.py (Flask + SQLAlchemy "link-in-bio"     *)
(* application).  The persisted tables profils / liens / analytics, the    *)
(* per-browser Flask sessions and the HTTP handlers are modelled; each     *)
(* handler is one action, except track_click, whose SELECT and whose       *)
(* INSERT/UPDATE/COMMIT are two steps so that concurrent requests served   *)
(* by different worker threads can interleave; profil_public has such a    *)
(* two-step form as well (profil_public_load, profil_public_commit).       *)
(***************************************************************************)
EXTENDS Integers, Sequences, FiniteSets, Bags, TLC

VARIABLES profils, liens, analytics, session, pending, response

vars == <<profils, liens, analytics, session, pending, response>>

----------------------------------------------------------------------------
(* Bounds of the model *)

MaxProfilId == 2
MaxLienId == 3
MaxEvents == 2

ProfilIds == 1..MaxProfilId
LienIds == 1..MaxLienId

(* Inputs *)

Sessions == {"s1", "s2", "s3"}
Workers == {"w1", "w2"}

RECURSIVE SeqsUpTo(_, _)
SeqsUpTo(S, n) ==
    IF n = 0 THEN {<<>>}
    ELSE LET shorter == SeqsUpTo(S, n - 1)
         IN  shorter \cup {Append(q, c) : q \in shorter, c \in S}

\* Display names typed into the forms: letters of both cases, surrounding and
\* inner whitespace, punctuation, non-ASCII letters, hyphens
Names == {<<"a">>, <<"B">>, <<" ", "a", " ">>, <<"a", " ", "B">>,
          <<"a", "!", "!", "B">>, <<"!">>, <<"é">>, <<" ">>, <<"-", "a">>}

EditNames == {<<"B">>, <<" ">>, <<"!">>}

----------------------------------------------------------------------------
(* Python / werkzeug helpers *)

None == <<>>
Idle == [state |-> "idle"]
NoLien == 0

LowerAlnum == {"a", "b", "c", "d", "e", "f", "g", "h", "i", "j", "k", "l", "m",
               "n", "o", "p", "q", "r", "s", "t", "u", "v", "w", "x", "y", "z",
               "0", "1", "2", "3", "4", "5", "6", "7", "8", "9"}

Whitespace == {" "}

\* str.lower() on one character
LowerChar(c) ==
    CASE c = "A" -> "a"
      [] c = "B" -> "b"
      [] c = "É" -> "é"
      [] OTHER -> c

lower(str) == [i \in 1..Len(str) |-> LowerChar(str[i])]

\* str.strip(chars): drop leading and trailing characters of the set
RECURSIVE lstrip(_, _)
lstrip(str, chars) ==
    IF str # <<>> /\ Head(str) \in chars THEN lstrip(Tail(str), chars) ELSE str

RECURSIVE rstrip(_, _)
rstrip(str, chars) ==
    IF str # <<>> /\ str[Len(str)] \in chars
    THEN rstrip(SubSeq(str, 1, Len(str) - 1), chars)
    ELSE str

strip(str, chars) == rstrip(lstrip(str, chars), chars)

\* re.sub(r'[^a-z0-9]+', '-', str): every maximal run of characters outside
\* [a-z0-9] becomes one hyphen
RECURSIVE sub_non_alnum(_, _)
sub_non_alnum(str, inRun) ==
    IF str = <<>> THEN <<>>
    ELSE IF Head(str) \in LowerAlnum
         THEN <<Head(str)>> \o sub_non_alnum(Tail(str), FALSE)
         ELSE IF inRun THEN sub_non_alnum(Tail(str), TRUE)
              ELSE <<"-">> \o sub_non_alnum(Tail(str), TRUE)

generate_slug(name) == strip(sub_non_alnum(lower(name), FALSE), {"-"})

Digits == {"0", "1", "2", "3", "4", "5", "6", "7", "8", "9"}
LowerLetters == LowerAlnum \ Digits
UpperLetters == {"A", "B", "C", "D", "E", "F", "G", "H", "I", "J", "K", "L", "M",
                 "N", "O", "P", "Q", "R", "S", "T", "U", "V", "W", "X", "Y", "Z"}
Letters == LowerLetters \cup UpperLetters

\* re.match(r'^#([A-Fa-f0-9]{6}|[A-Fa-f0-9]{3})$', color)
HexDigits == Digits \cup {"a", "b", "c", "d", "e", "f", "A", "B", "C", "D", "E", "F"}

validate_hex_color(color) ==
    /\ color # <<>>
    /\ Len(color) \in {4, 7}
    /\ color[1] = "#"
    /\ \A i \in 2..Len(color) : color[i] \in HexDigits

\* re.match(r'^[a-zA-Z0-9._%+-]+@[a-zA-Z0-9.-]+\.[a-zA-Z]{2,}$', email):
\* a local part, "@" at i, a domain up to a "." at j, two letters or more
EmailLocal == Letters \cup Digits \cup {".", "_", "%", "+", "-"}
EmailDomain == Letters \cup Digits \cup {".", "-"}

validate_email(email) ==
    \/ email = <<>>
    \/ \E i, j \in 1..Len(email) :
          /\ 1 < i
          /\ i + 1 < j
          /\ j + 2 <= Len(email)
          /\ email[i] = "@"
          /\ email[j] = "."
          /\ \A k \in 1..(i - 1) : email[k] \in EmailLocal
          /\ \A k \in (i + 1)..(j - 1) : email[k] \in EmailDomain
          /\ \A k \in (j + 1)..Len(email) : email[k] \in Letters

\* str.replace(c, '') for each c of chars
remove(str, chars) == SelectSeq(str, LAMBDA c : c \notin chars)

\* re.match(r'^\+?1?\d{9,15}$', phone.replace(' ', '').replace('-', ''))
validate_phone(phone) ==
    \/ phone = <<>>
    \/ LET d == remove(phone, {" ", "-"})
           r == IF d # <<>> /\ Head(d) = "+" THEN Tail(d) ELSE d
       IN  /\ \A k \in 1..Len(r) : r[k] \in Digits
           /\ \/ Len(r) \in 9..15
              \/ r # <<>> /\ Head(r) = "1" /\ Len(r) - 1 \in 9..15

generate_password_hash(password) == <<"pbkdf2", password>>

check_password_hash(pwhash, password) == pwhash = <<"pbkdf2", password>>

ADMIN_PASSWORD_HASH == generate_password_hash("admin123")

----------------------------------------------------------------------------
(* Tables *)

\* SQLite rowid allocation for an INTEGER PRIMARY KEY column without
\* AUTOINCREMENT: one more than the largest id currently in the table
Max(S) == CHOOSE x \in S : \A y \in S : y <= x

NextId(table) == IF DOMAIN table = {} THEN 1 ELSE Max(DOMAIN table) + 1

Insert(table, id, row) ==
    [i \in DOMAIN table \cup {id} |-> IF i = id THEN row ELSE table[i]]

Delete(table, ids) == [i \in DOMAIN table \ ids |-> table[i]]

ProfilBySlug(slug) == {p \in DOMAIN profils : profils[p].slug = slug}

LiensOf(p) == {l \in DOMAIN liens : liens[l].profil_id = p}

ViewEvent(p) == [profil_id |-> p, lien_id |-> NoLien, event_type |-> "view"]

ClickEvent(p, l) == [profil_id |-> p, lien_id |-> l, event_type |-> "click"]

\* an event that is built and never added to the database session
AddEvent_not_added(ev) == analytics

AddEvent(ev) == analytics (+) SetToBag({ev})

\* analytics rows of a profile are deleted with it (cascade='all, delete-orphan')
CascadeAnalytics(p) ==
    [e \in {x \in DOMAIN analytics : x.profil_id # p} |-> analytics[e]]

\* Analytics.query.filter_by(profil_id=p, event_type='view').count()
view_count(p) ==
    BagCardinality([e \in {x \in DOMAIN analytics :
                              x.profil_id = p /\ x.event_type = "view"}
                    |-> analytics[e]])

\* Analytics.query.filter_by(lien_id=l, event_type='click').count()
click_events(l) ==
    BagCardinality([e \in {x \in DOMAIN analytics :
                              x.lien_id = l /\ x.event_type = "click"}
                    |-> analytics[e]])

NewSession == [admin_logged_in |-> FALSE, unlocked |-> {}]

\* The last request served: its route and session, the status and the profile
\* content of the response, and (args) what the request carried: the JSON
\* body of a reorder, the form of an unlock or of a create
\* What became of the one requests.post of a webhook: answered 2xx, no answer
\* within the timeout, connection refused, answered with an error status
Outcomes == {"ok", "timeout", "connection_error", "non_2xx"}

\* requests.post raises for these; an error status comes back as a Response
\* object, which send_webhook does not look at
Raising == {"timeout", "connection_error"}

NoWebhook ==
    [url |-> None, event |-> "", profil_slug |-> None, outcome |-> "none",
     attempts |-> 0, raised |-> FALSE]

\* without the try / except around requests.post
send_webhook_unguarded(profil, event_type, outcome) ==
    IF profil.webhook_url = None THEN NoWebhook
    ELSE [url |-> profil.webhook_url, event |-> event_type,
          profil_slug |-> profil.slug, outcome |-> outcome, attempts |-> 1,
          raised |-> outcome \in Raising]

\* The request sent by send_webhook(profil, event_type): none without a
\* webhook_url, else one POST; whatever it raises is caught and logged, so
\* nothing is raised to the handler
send_webhook(profil, event_type, outcome) ==
    IF profil.webhook_url = None THEN NoWebhook
    ELSE [url |-> profil.webhook_url, event |-> event_type,
          profil_slug |-> profil.slug, outcome |-> outcome, attempts |-> 1,
          raised |-> FALSE]

\* the outcomes a delivery to the profile can have
DeliveryOutcomes(profil) ==
    IF profil.webhook_url = None THEN {"none"} ELSE Outcomes

RespArgs(route, s, status, p, body, args) ==
    [route |-> route, sess |-> s, status |-> status, profil_id |-> p,
     body |-> body, args |-> args, webhook |-> NoWebhook]

\* The response of a handler that called send_webhook before returning resp:
\* an exception leaving send_webhook would reach the 500 error handler
Notified(resp, delivery) ==
    IF delivery.raised
    THEN [resp EXCEPT !.status = 500, !.body = {}, !.webhook = delivery]
    ELSE [resp EXCEPT !.webhook = delivery]

Resp(route, s, status, p, body) == RespArgs(route, s, status, p, body, <<>>)

Init ==
    /\ profils = <<>>
    /\ liens = <<>>
    /\ analytics = EmptyBag
    /\ session = [s \in Sessions |-> NewSession]
    /\ pending = [w \in Workers |-> Idle]
    /\ response = Resp("none", "s1", 0, 0, {})


----------------------------------------------------------------------------
(* Responses: what a rendered template or generated file carries of a profile *)

PageContent == {"nom", "titre", "biographie", "email", "telephone", "liens"}

\* vcard(): fn is always emitted, the other properties when non-empty
VCardContent == {"nom", "titre", "email", "telephone", "biographie"}

\* track_click(): the redirect target is the link's url
ClickContent == {"liens"}

Slugs == {generate_slug(strip(n, Whitespace)) : n \in Names}

is_locked(s, p) == profils[p].is_protected /\ p \notin session[s].unlocked

----------------------------------------------------------------------------
(* Authentication *)

admin_login(s, password) ==
    /\ IF check_password_hash(ADMIN_PASSWORD_HASH, password)
       THEN /\ session' = [session EXCEPT ![s].admin_logged_in = TRUE]
            /\ response' = Resp("admin_login", s, 302, 0, {})
       ELSE /\ session' = session
            /\ response' = Resp("admin_login", s, 200, 0, {})
    /\ UNCHANGED <<profils, liens, analytics, pending>>

admin_logout(s) ==
    /\ session' = [session EXCEPT ![s] = NewSession]
    /\ response' = Resp("admin_logout", s, 302, 0, {})
    /\ UNCHANGED <<profils, liens, analytics, pending>>

\* @admin_required: the request of a session that is not logged in is
\* redirected to the login page and the handler does not run
login_redirect(route, s) ==
    /\ response' = Resp(route, s, 302, 0, {})
    /\ UNCHANGED <<profils, liens, analytics, session, pending>>

not_found(route, s) ==
    /\ response' = Resp(route, s, 404, 0, {})
    /\ UNCHANGED <<profils, liens, analytics, session, pending>>

----------------------------------------------------------------------------
(* Public routes *)

\* profil_public without the test of the protection: the view is recorded
\* and the page rendered for every caller
profil_public_ungated(s, slug) ==
    IF ProfilBySlug(slug) = {} THEN not_found("profil_public", s)
    ELSE LET p == CHOOSE x \in ProfilBySlug(slug) : TRUE IN
         /\ BagCardinality(analytics) < MaxEvents
         /\ analytics' = AddEvent(ViewEvent(p))
         /\ response' = Resp("profil_public", s, 200, p, PageContent)
         /\ UNCHANGED <<profils, liens, session, pending>>

profil_public(s, slug) ==
    IF ProfilBySlug(slug) = {} THEN not_found("profil_public", s)
    ELSE LET p == CHOOSE x \in ProfilBySlug(slug) : TRUE IN
         IF is_locked(s, p)
         THEN /\ response' = Resp("profil_public", s, 302, p, {})
              /\ UNCHANGED <<profils, liens, analytics, session, pending>>
         ELSE /\ BagCardinality(analytics) < MaxEvents
              /\ analytics' = AddEvent(ViewEvent(p))
              /\ response' = Resp("profil_public", s, 200, p, PageContent)
              /\ UNCHANGED <<profils, liens, session, pending>>

\* unlock_profil without the comparison of the password: every POST unlocks
\* profil_public as the two database round trips of a request served by
\* worker w, between which other requests can commit: the SELECT of the
\* profile with the lock test ...
profil_public_load(w, s, slug) ==
    /\ pending[w] = Idle
    /\ IF ProfilBySlug(slug) = {} THEN not_found("profil_public", s)
       ELSE LET p == CHOOSE x \in ProfilBySlug(slug) : TRUE IN
            IF is_locked(s, p)
            THEN /\ response' = Resp("profil_public", s, 302, p, {})
                 /\ UNCHANGED <<profils, liens, analytics, session, pending>>
            ELSE /\ pending' = [pending EXCEPT ![w] =
                        [state |-> "viewing", sess |-> s, profil_id |-> p]]
                 /\ UNCHANGED <<profils, liens, analytics, session, response>>

\* ... and the INSERT of the view event with its COMMIT.  Foreign keys are
\* not enforced, so the INSERT succeeds when the profile is gone; reading the
\* expired profil for the page then fails and the request answers 500.
profil_public_commit(w) ==
    /\ pending[w].state = "viewing"
    /\ pending' = [pending EXCEPT ![w] = Idle]
    /\ BagCardinality(analytics) < MaxEvents
    /\ LET r == pending[w] IN
       /\ analytics' = AddEvent(ViewEvent(r.profil_id))
       /\ response' = IF r.profil_id \in DOMAIN profils
                      THEN Resp("profil_public", r.sess, 200, r.profil_id, PageContent)
                      ELSE Resp("profil_public", r.sess, 500, r.profil_id, {})
    /\ UNCHANGED <<profils, liens, session>>

unlock_profil_unchecked(s, slug, method, password) ==
    IF ProfilBySlug(slug) = {} THEN not_found("unlock_profil", s)
    ELSE LET p == CHOOSE x \in ProfilBySlug(slug) : TRUE
             form == IF method = "POST" THEN <<method, password>> ELSE <<method>>
         IN
         IF ~profils[p].is_protected
         THEN /\ response' = RespArgs("unlock_profil", s, 302, p, {}, form)
              /\ UNCHANGED <<profils, liens, analytics, session, pending>>
         ELSE IF method = "POST"
              THEN /\ session' = [session EXCEPT ![s].unlocked = @ \cup {p}]
                   /\ response' = RespArgs("unlock_profil", s, 302, p, {}, form)
                   /\ UNCHANGED <<profils, liens, analytics, pending>>
              ELSE /\ response' = RespArgs("unlock_profil", s, 200, p, {}, form)
                   /\ UNCHANGED <<profils, liens, analytics, session, pending>>

unlock_profil(s, slug, method, password) ==
    IF ProfilBySlug(slug) = {} THEN not_found("unlock_profil", s)
    ELSE LET p == CHOOSE x \in ProfilBySlug(slug) : TRUE
             form == IF method = "POST" THEN <<method, password>> ELSE <<method>>
         IN
         IF ~profils[p].is_protected
         THEN /\ response' = RespArgs("unlock_profil", s, 302, p, {}, form)
              /\ UNCHANGED <<profils, liens, analytics, session, pending>>
         ELSE IF /\ method = "POST"
                 /\ profils[p].profil_password # None
                 /\ check_password_hash(profils[p].profil_password, password)
              THEN /\ session' = [session EXCEPT ![s].unlocked = @ \cup {p}]
                   /\ response' = RespArgs("unlock_profil", s, 302, p, {}, form)
                   /\ UNCHANGED <<profils, liens, analytics, pending>>
              ELSE /\ response' = RespArgs("unlock_profil", s, 200, p, {}, form)
                   /\ UNCHANGED <<profils, liens, analytics, session, pending>>

track_click_load(w, s, lien_id) ==
    /\ pending[w] = Idle
    /\ IF lien_id \notin DOMAIN liens
       THEN not_found("track_click", s)
       ELSE /\ pending' = [pending EXCEPT ![w] =
                   [state |-> "loaded", sess |-> s, lien_id |-> lien_id,
                    profil_id |-> liens[lien_id].profil_id,
                    click_count |-> liens[lien_id].click_count]]
            /\ UNCHANGED <<profils, liens, analytics, session, response>>

\* db.session.add(analytics); lien.click_count += 1; db.session.commit():
\* the UPDATE writes the value computed from the row as it was loaded, and
\* fails (StaleDataError, the transaction is rolled back) when the row is gone
track_click_commit(w) ==
    /\ pending[w].state = "loaded"
    /\ pending' = [pending EXCEPT ![w] = Idle]
    /\ LET r == pending[w] IN
       IF r.lien_id \notin DOMAIN liens
       THEN /\ response' = Resp("track_click", r.sess, 500, r.profil_id, {})
            /\ UNCHANGED <<profils, liens, analytics, session>>
       ELSE /\ BagCardinality(analytics) < MaxEvents
            /\ r.click_count < MaxEvents
            /\ analytics' = AddEvent(ClickEvent(r.profil_id, r.lien_id))
            /\ liens' = [liens EXCEPT ![r.lien_id].click_count = r.click_count + 1]
            /\ LET profil == profils[liens[r.lien_id].profil_id] IN
               \E outcome \in DeliveryOutcomes(profil) :
                  response' = Notified(
                      Resp("track_click", r.sess, 302, r.profil_id, ClickContent),
                      send_webhook(profil, "link_clicked", outcome))
            /\ UNCHANGED <<profils, session>>

qr_code_generator(s, slug) ==
    IF ProfilBySlug(slug) = {} THEN not_found("qr_code_generator", s)
    ELSE LET p == CHOOSE x \in ProfilBySlug(slug) : TRUE IN
         /\ response' = Resp("qr_code_generator", s, 200, p, {})
         /\ UNCHANGED <<profils, liens, analytics, session, pending>>

vcard(s, slug) ==
    IF ProfilBySlug(slug) = {} THEN not_found("vcard", s)
    ELSE LET p == CHOOSE x \in ProfilBySlug(slug) : TRUE IN
         /\ response' = Resp("vcard", s, 200, p, VCardContent)
         /\ UNCHANGED <<profils, liens, analytics, session, pending>>

----------------------------------------------------------------------------
(* Admin routes: profiles *)

\* request.form.get(field, default)
form_get(form, field, default) ==
    IF field \in DOMAIN form THEN form[field] ELSE default

\* '#007bff', the default of couleur_principale.  The three other colour
\* columns go through the same code and are not modelled apart.
DefaultColour == <<"#", "0", "0", "7", "b", "f", "f">>

NewProfil(slug, nom) ==
    [slug |-> slug, nom |-> nom, is_protected |-> FALSE,
     profil_password |-> None, view_count |-> 0, webhook_url |-> None,
     email |-> <<>>, telephone |-> <<>>, couleur_principale |-> DefaultColour]

\* create_profil without the lookup of the derived slug
create_profil_unchecked(s, form_nom) ==
    IF ~session[s].admin_logged_in THEN login_redirect("create_profil", s)
    ELSE LET nom == strip(form_nom, Whitespace)
             slug == generate_slug(nom)
         IN  IF nom = <<>>
             THEN /\ response' = RespArgs("create_profil", s, 200, 0, {}, form_nom)
                  /\ UNCHANGED <<profils, liens, analytics, session, pending>>
             ELSE /\ NextId(profils) <= MaxProfilId
                  /\ profils' = Insert(profils, NextId(profils), NewProfil(slug, nom))
                  /\ response' = RespArgs("create_profil", s, 302, NextId(profils), {},
                                          form_nom)
                  /\ UNCHANGED <<liens, analytics, session, pending>>

create_profil_form(s, form) ==
    IF ~session[s].admin_logged_in THEN login_redirect("create_profil", s)
    ELSE LET form_nom == form_get(form, "nom", <<>>)
             nom == strip(form_nom, Whitespace)
             email == strip(form_get(form, "email", <<>>), Whitespace)
             telephone == strip(form_get(form, "telephone", <<>>), Whitespace)
             slug == generate_slug(nom)
             profil == [NewProfil(slug, nom) EXCEPT
                           !.email = email,
                           !.telephone = telephone,
                           !.couleur_principale =
                               form_get(form, "couleur_principale", DefaultColour)]
         IN  IF \/ nom = <<>>
                \/ email # <<>> /\ ~validate_email(email)
                \/ telephone # <<>> /\ ~validate_phone(telephone)
                \/ ProfilBySlug(slug) # {}
             THEN /\ response' = RespArgs("create_profil", s, 200, 0, {}, form_nom)
                  /\ UNCHANGED <<profils, liens, analytics, session, pending>>
             ELSE /\ NextId(profils) <= MaxProfilId
                  /\ profils' = Insert(profils, NextId(profils), profil)
                  /\ \E outcome \in DeliveryOutcomes(profil) :
                        response' = Notified(
                            RespArgs("create_profil", s, 302, NextId(profils), {},
                                     form_nom),
                            send_webhook(profil, "profile_created", outcome))
                  /\ UNCHANGED <<liens, analytics, session, pending>>

\* a POST whose form carries the name only
create_profil(s, form_nom) == create_profil_form(s, [nom |-> form_nom])

\* The assignments made to profil before an early return are never committed
edit_profil_form(s, slug, form) ==
    IF ~session[s].admin_logged_in THEN login_redirect("edit_profil", s)
    ELSE IF ProfilBySlug(slug) = {} THEN not_found("edit_profil", s)
    ELSE LET p == CHOOSE x \in ProfilBySlug(slug) : TRUE
             nom == strip(form_get(form, "nom", profils[p].nom), Whitespace)
             email == strip(form_get(form, "email", <<>>), Whitespace)
             telephone == strip(form_get(form, "telephone", <<>>), Whitespace)
             color == strip(form_get(form, "couleur_principale", <<>>), Whitespace)
         IN  IF \/ email # <<>> /\ ~validate_email(email)
                \/ telephone # <<>> /\ ~validate_phone(telephone)
             THEN /\ response' = Resp("edit_profil", s, 200, p, PageContent)
                  /\ UNCHANGED <<profils, liens, analytics, session, pending>>
             ELSE /\ profils' = [profils EXCEPT
                         ![p].nom = nom,
                         ![p].email = email,
                         ![p].telephone = telephone,
                         ![p].couleur_principale =
                             IF color # <<>> /\ validate_hex_color(color)
                             THEN color ELSE @]
                  /\ \E outcome \in DeliveryOutcomes(profils'[p]) :
                        response' = Notified(
                            Resp("edit_profil", s, 200, p, PageContent),
                            send_webhook(profils'[p], "profile_updated", outcome))
                  /\ UNCHANGED <<liens, analytics, session, pending>>

\* a POST whose form carries the name only
edit_profil(s, slug, form_nom) == edit_profil_form(s, slug, [nom |-> form_nom])

\* db.session.delete(profil): the profile's liens and analytics go with it
delete_profil(s, slug) ==
    IF ~session[s].admin_logged_in THEN login_redirect("delete_profil", s)
    ELSE IF ProfilBySlug(slug) = {} THEN not_found("delete_profil", s)
    ELSE LET p == CHOOSE x \in ProfilBySlug(slug) : TRUE IN
         /\ profils' = Delete(profils, {p})
         /\ liens' = Delete(liens, LiensOf(p))
         /\ analytics' = CascadeAnalytics(p)
         /\ response' = Resp("delete_profil", s, 302, p, {})
         /\ UNCHANGED <<session, pending>>

parametres_profil(s, slug, is_protected, new_password, webhook_url) ==
    IF ~session[s].admin_logged_in THEN login_redirect("parametres_profil", s)
    ELSE IF ProfilBySlug(slug) = {} THEN not_found("parametres_profil", s)
    ELSE LET p == CHOOSE x \in ProfilBySlug(slug) : TRUE IN
         /\ profils' = [profils EXCEPT
                ![p].is_protected = is_protected,
                ![p].profil_password =
                    IF is_protected
                    THEN IF new_password # "" THEN generate_password_hash(new_password)
                         ELSE @
                    ELSE None,
                ![p].webhook_url = strip(webhook_url, Whitespace)]
         /\ \E outcome \in DeliveryOutcomes(profils'[p]) :
               response' = Notified(Resp("parametres_profil", s, 302, p, {}),
                                    send_webhook(profils'[p], "settings_updated",
                                                 outcome))
         /\ UNCHANGED <<liens, analytics, session, pending>>

----------------------------------------------------------------------------
(* Admin routes: links *)

NewLien(p, order) == [profil_id |-> p, link_order |-> order, click_count |-> 0]

\* the count taken over the whole table, without the filter on the profile
lien_count_all(p) == Cardinality(DOMAIN liens)

\* Lien.query.filter_by(profil_id=profil_id).count()
lien_count(p) == Cardinality(LiensOf(p))

add_lien(s, profil_id) ==
    IF ~session[s].admin_logged_in THEN login_redirect("add_lien", s)
    ELSE IF profil_id \notin DOMAIN profils THEN not_found("add_lien", s)
    ELSE /\ NextId(liens) <= MaxLienId
         /\ liens' = Insert(liens, NextId(liens), NewLien(profil_id, lien_count(profil_id)))
         /\ \E outcome \in DeliveryOutcomes(profils[profil_id]) :
               response' = Notified(Resp("add_lien", s, 302, profil_id, {}),
                                    send_webhook(profils[profil_id], "link_added",
                                                 outcome))
         /\ UNCHANGED <<profils, analytics, session, pending>>

delete_lien(s, lien_id) ==
    IF ~session[s].admin_logged_in THEN login_redirect("delete_lien", s)
    ELSE IF lien_id \notin DOMAIN liens THEN not_found("delete_lien", s)
    ELSE /\ liens' = Delete(liens, {lien_id})
         /\ response' = Resp("delete_lien", s, 302, liens[lien_id].profil_id, {})
         /\ UNCHANGED <<profils, analytics, session, pending>>

\* the loop of reorder_liens numbering from 1 instead of 0
RECURSIVE reorder_loop_from_one(_, _, _)
reorder_loop_from_one(table, link_ids, index) ==
    IF index >= Len(link_ids) THEN table
    ELSE LET link_id == link_ids[index + 1] IN
         reorder_loop_from_one(IF link_id \in DOMAIN table
                               THEN [table EXCEPT ![link_id].link_order = index + 1]
                               ELSE table,
                               link_ids, index + 1)

\* for index, link_id in enumerate(link_ids): lien = Lien.query.get(link_id);
\* if lien: lien.link_order = index
RECURSIVE reorder_loop(_, _, _)
reorder_loop(table, link_ids, index) ==
    IF index >= Len(link_ids) THEN table
    ELSE LET link_id == link_ids[index + 1] IN
         reorder_loop(IF link_id \in DOMAIN table
                      THEN [table EXCEPT ![link_id].link_order = index]
                      ELSE table,
                      link_ids, index + 1)

reorder_liens(s, link_ids) ==
    IF ~session[s].admin_logged_in THEN login_redirect("reorder_liens", s)
    ELSE /\ liens' = reorder_loop(liens, link_ids, 0)
         /\ response' = RespArgs("reorder_liens", s, 200, 0, {}, link_ids)
         /\ UNCHANGED <<profils, analytics, session, pending>>

\* Lien.query.filter_by(profil_id=p).order_by(Lien.link_order).all(): the
\* listings the query can return (rows of equal link_order come in any order)
manage_liens(p) ==
    {q \in [1..lien_count(p) -> LiensOf(p)] :
        /\ \A i, j \in 1..lien_count(p) : i # j => q[i] # q[j]
        /\ \A i, j \in 1..lien_count(p) :
              i < j => liens[q[i]].link_order <= liens[q[j]].link_order}

----------------------------------------------------------------------------
(* Specifications.  Every specification starts from the empty database and *)
(* takes the handlers one part of the application uses, with the request   *)
(* parameters drawn from small sets.                                       *)

\* The browser of the administrator and the browsers of the visitors
Admin == "s1"

Visitors == Sessions \ {Admin}

TwoNames == {<<"a">>, <<"B">>}

TwoSlugs == {generate_slug(n) : n \in TwoNames}

\* Bodies of a reorder request: every sequence of distinct link identifiers,
\* and the short sequences that repeat one
LinkIdSeqs ==
    {q \in SeqsUpTo(LienIds, MaxLienId) :
        Len(q) <= 2 \/ \A i, j \in 1..Len(q) : i # j => q[i] # q[j]}

IsPermutationOf(ids, S) ==
    Len(ids) = Cardinality(S) /\ {ids[i] : i \in 1..Len(ids)} = S

\* Link collection: add, delete, reorder
NextLiens ==
    \/ \E pw \in {"admin123", "pw1"} : admin_login(Admin, pw)
    \/ \E nom \in TwoNames : create_profil(Admin, nom)
    \/ \E p \in ProfilIds : add_lien(Admin, p)
    \/ \E l \in LienIds : delete_lien(Admin, l)
    \/ \E ids \in LinkIdSeqs : reorder_liens(Admin, ids)

SpecLiens == Init /\ [][NextLiens]_vars

\* Link collection used as the drag & drop page uses it: a reorder request
\* carries a full permutation of the links of one profile
NextLiensPerm ==
    \/ admin_login(Admin, "admin123")
    \/ \E nom \in TwoNames : create_profil(Admin, nom)
    \/ \E p \in ProfilIds : add_lien(Admin, p)
    \/ \E l \in LienIds : delete_lien(Admin, l)
    \/ \E ids \in LinkIdSeqs :
          /\ \E p \in DOMAIN profils : IsPermutationOf(ids, LiensOf(p))
          /\ reorder_liens(Admin, ids)

SpecLiensPerm == Init /\ [][NextLiensPerm]_vars

\* Unlock flags: two visitors try passwords on two profiles that the
\* administrator creates, protects, opens and deletes
NextUnlock ==
    \/ admin_login(Admin, "admin123")
    \/ \E s \in Visitors : admin_logout(s)
    \/ \E nom \in TwoNames : create_profil(Admin, nom)
    \/ \E slug \in TwoSlugs : delete_profil(Admin, slug)
    \/ \E slug \in TwoSlugs, prot \in BOOLEAN, pw \in {"", "pw1"} :
          parametres_profil(Admin, slug, prot, pw, <<>>)
    \/ \E s \in Visitors, slug \in TwoSlugs : unlock_profil(s, slug, "GET", "")
    \/ \E s \in Visitors, slug \in TwoSlugs, pw \in {"pw1", "pw2"} :
          unlock_profil(s, slug, "POST", pw)

SpecUnlock == Init /\ [][NextUnlock]_vars

\* Visibility gate and view accounting: the visitor Knows tries the right and
\* a wrong password, the visitor Guesses only a wrong one
Knows == "s2"

Guesses == "s3"

NextGate ==
    \/ admin_login(Admin, "admin123")
    \/ \E s \in Visitors : admin_logout(s)
    \/ \E nom \in TwoNames : create_profil(Admin, nom)
    \/ \E slug \in TwoSlugs : delete_profil(Admin, slug)
    \/ \E slug \in TwoSlugs, prot \in BOOLEAN, pw \in {"", "pw1"} :
          parametres_profil(Admin, slug, prot, pw, <<>>)
    \/ \E s \in Visitors, slug \in TwoSlugs : profil_public(s, slug)
    \/ \E s \in Visitors, slug \in TwoSlugs : unlock_profil(s, slug, "GET", "")
    \/ \E slug \in TwoSlugs, pw \in {"pw1", "pw2"} :
          unlock_profil(Knows, slug, "POST", pw)
    \/ \E slug \in TwoSlugs : unlock_profil(Guesses, slug, "POST", "pw2")

SpecGate == Init /\ [][NextGate]_vars

\* Everything a visitor can request of a protected profile
NextPublic ==
    \/ admin_login(Admin, "admin123")
    \/ create_profil(Admin, <<"a">>)
    \/ \E p \in ProfilIds : add_lien(Admin, p)
    \/ \E slug \in TwoSlugs, prot \in BOOLEAN, pw \in {"", "pw1"} :
          parametres_profil(Admin, slug, prot, pw, <<>>)
    \/ \E s \in Visitors, slug \in TwoSlugs : profil_public(s, slug)
    \/ \E s \in Visitors, slug \in TwoSlugs : unlock_profil(s, slug, "GET", "")
    \/ \E s \in Visitors, slug \in TwoSlugs, pw \in {"pw1", "pw2"} :
          unlock_profil(s, slug, "POST", pw)
    \/ \E s \in Visitors, slug \in TwoSlugs : vcard(s, slug)
    \/ \E s \in Visitors, slug \in TwoSlugs : qr_code_generator(s, slug)
    \/ \E s \in Visitors, l \in LienIds : track_click_load("w1", s, l)
    \/ track_click_commit("w1")

SpecPublic == Init /\ [][NextPublic]_vars

\* Slug derivation and uniqueness
NextSlug ==
    \/ \E pw \in {"admin123", "pw1"} : admin_login(Admin, pw)
    \/ \E nom \in Names : create_profil(Admin, nom)
    \/ \E slug \in Slugs, nom \in EditNames : edit_profil(Admin, slug, nom)
    \/ \E slug \in Slugs : delete_profil(Admin, slug)

SpecSlug == Init /\ [][NextSlug]_vars

\* Click accounting with concurrent requests
NextClick ==
    \/ admin_login(Admin, "admin123")
    \/ create_profil(Admin, <<"a">>)
    \/ \E p \in ProfilIds : add_lien(Admin, p)
    \/ \E w \in Workers, l \in LienIds : track_click_load(w, "s2", l)
    \/ \E w \in Workers : track_click_commit(w)

SpecClick == Init /\ [][NextClick]_vars

\* Deletion of profiles while visitors are being served
NextCascade ==
    \/ admin_login(Admin, "admin123")
    \/ \E nom \in TwoNames : create_profil(Admin, nom)
    \/ \E slug \in TwoSlugs : delete_profil(Admin, slug)
    \/ add_lien(Admin, 1)
    \/ \E slug \in TwoSlugs : profil_public_load("w1", "s2", slug)
    \/ profil_public_commit("w1")
    \/ track_click_load("w1", "s2", 1)
    \/ track_click_commit("w1")

SpecCascade == Init /\ [][NextCascade]_vars

\* Validation of the profile forms
Str(s) == CASE s = "a@b.co" -> <<"a", "@", "b", ".", "c", "o">>
            [] s = "a@b" -> <<"a", "@", "b">>
            [] s = "06 12-34 56 78" -> <<"0", "6", " ", "1", "2", "-", "3", "4", " ",
                                         "5", "6", " ", "7", "8">>
            [] s = "0612" -> <<"0", "6", "1", "2">>
            [] s = "#fff" -> <<"#", "f", "f", "f">>
            [] s = "red" -> <<"r", "e", "d">>

\* The forms posted: every field is absent, or present with one of its values
FieldValues ==
    [nom |-> {<<"a">>, <<" ">>},
     email |-> {Str("a@b.co"), Str("a@b")},
     telephone |-> {Str("06 12-34 56 78"), Str("0612")},
     couleur_principale |-> {Str("#fff"), Str("red")}]

Forms ==
    UNION {[fields -> UNION {FieldValues[f] : f \in fields}] :
              fields \in SUBSET DOMAIN FieldValues}

ProfilForms == {form \in Forms : \A f \in DOMAIN form : form[f] \in FieldValues[f]}

NextForm ==
    \/ admin_login(Admin, "admin123")
    \/ \E form \in ProfilForms : create_profil_form(Admin, form)
    \/ \E form \in ProfilForms : edit_profil_form(Admin, <<"a">>, form)

SpecForm == Init /\ [][NextForm]_vars

\* Webhook notifications
WebhookUrls == {<<>>, <<"u">>, <<"v">>}

NextWebhook ==
    \/ admin_login(Admin, "admin123")
    \/ create_profil(Admin, <<"a">>)
    \/ \E url \in WebhookUrls : parametres_profil(Admin, <<"a">>, FALSE, "", url)
    \/ edit_profil(Admin, <<"a">>, <<"a", " ", "B">>)
    \/ \E p \in ProfilIds : add_lien(Admin, p)
    \/ \E l \in LienIds : track_click_load("w1", "s2", l)
    \/ track_click_commit("w1")

SpecWebhook == Init /\ [][NextWebhook]_vars

Next == NextLiens \/ NextLiensPerm \/ NextUnlock \/ NextGate \/ NextPublic \/ NextSlug \/ NextClick
        \/ NextWebhook \/ NextForm \/ NextCascade

Spec == Init /\ [][Next]_vars

----------------------------------------------------------------------------
(* Link ordering *)

Dense(p) == {liens[l].link_order : l \in LiensOf(p)} = 0..(lien_count(p) - 1)

\* C1: after any sequence of add_lien, delete_lien and reorder_liens requests
\* the link_order values of the links of every profile are exactly 0..k-1,
\* k the number of its links: no gap and no value used twice.
C1_DenseOrder == \A p \in DOMAIN profils : Dense(p)

\* C2: delete_lien applied to a link of a profile whose N links are ordered
\* 0..N-1 leaves the remaining links ordered exactly 0..N-2, in the same
\* relative order as before.
C2_DeleteKeepsDense ==
    [][\A l \in LienIds : \A p \in ProfilIds :
          (/\ session[Admin].admin_logged_in
           /\ l \in LiensOf(p)
           /\ Dense(p)
           /\ delete_lien(Admin, l))
          => /\ Dense(p)'
             /\ \A a, b \in LiensOf(p) \ {l} :
                   (liens[a].link_order < liens[b].link_order)
                   <=> (liens'[a].link_order < liens'[b].link_order)]_vars

\* C3: reorder_liens with a full permutation of the identifiers of the N
\* links of a profile gives the link at position i of the request (counted
\* from 0) link_order i, so that the listing of the profile's links by
\* link_order is exactly the sequence of the request.
C3_ReorderPermutation ==
    (response.route = "reorder_liens" /\ response.status = 200) =>
        \A p \in DOMAIN profils :
            IsPermutationOf(response.args, LiensOf(p)) =>
                /\ \A i \in 1..Len(response.args) :
                      liens[response.args[i]].link_order = i - 1
                /\ manage_liens(p) = {response.args}

\* a reorder has just put the three links of a profile in an order that is
\* not the order of their identifiers
C3_Witness ==
    /\ response.route = "reorder_liens"
    /\ response.status = 200
    /\ \E p \in DOMAIN profils :
          /\ lien_count(p) = 3
          /\ IsPermutationOf(response.args, LiensOf(p))
          /\ \E a, b \in LiensOf(p) : a < b /\ liens[a].link_order > liens[b].link_order

----------------------------------------------------------------------------
(* Click accounting *)

\* C4: in every reachable state, whatever the interleaving of concurrent
\* click requests, the click_count of every link equals the number of click
\* events that reference the link.
C4_ClickCountMatchesEvents ==
    \A l \in DOMAIN liens : liens[l].click_count = click_events(l)

----------------------------------------------------------------------------
(* Visibility gate *)

PublicRoutes == {"profil_public", "unlock_profil", "vcard", "qr_code_generator",
                 "track_click"}

\* C5: while a protected profile is locked for a caller, no response to a
\* public request of that caller carries content of the profile.
C5_LockedNoContent ==
    (/\ response.route \in PublicRoutes
     /\ response.profil_id \in DOMAIN profils
     /\ is_locked(response.sess, response.profil_id))
    => response.body = {}

\* The step serves a request of session s for profile p on one of the routes
\* (every handler but the first half of track_click writes the response, so
\* the route of the next response names the handler that ran)
Served(s, p, routes) ==
    /\ response'.route \in routes
    /\ response'.sess = s
    /\ response'.profil_id = p

----------------------------------------------------------------------------
(* Slugs *)

SlugChars == LowerAlnum \cup {"-"}

\* C8: every stored profile has a non-empty slug whose characters are all
\* in [a-z0-9-] (generate_slug returns such a string for every display name).
C8_SlugWellFormed ==
    \A p \in DOMAIN profils :
        /\ profils[p].slug # <<>>
        /\ \A i \in 1..Len(profils[p].slug) : profils[p].slug[i] \in SlugChars

\* C9: no two stored profiles have the same slug, and a create_profil whose
\* derived slug is the slug of a stored profile stores nothing.
C9_SlugUnique ==
    /\ [](\A p, q \in DOMAIN profils : p # q => profils[p].slug # profils[q].slug)
    /\ [][(/\ response'.route = "create_profil"
            /\ session[response'.sess].admin_logged_in
            /\ ProfilBySlug(generate_slug(strip(response'.args, Whitespace))) # {})
           => profils' = profils]_vars

\* a create has just been refused because its slug is taken, with two
\* profiles stored, one of them renamed since it was created
C9_Witness ==
    /\ response.route = "create_profil"
    /\ response.status = 200
    /\ ProfilBySlug(generate_slug(strip(response.args, Whitespace))) # {}
    /\ Cardinality(DOMAIN profils) = 2
    /\ \E p \in DOMAIN profils : generate_slug(profils[p].nom) # profils[p].slug

----------------------------------------------------------------------------
(* View accounting *)

\* C10: a GET of the profile page by a caller for whom the profile is not
\* locked renders the page and appends exactly one view event of that
\* profile: its view count is one higher, that of every other profile is
\* unchanged.
C10_ViewRecorded ==
    [][\A s \in Sessions : \A p \in DOMAIN profils :
          (~is_locked(s, p) /\ Served(s, p, {"profil_public"}))
          => /\ response'.status = 200
             /\ analytics' = analytics (+) SetToBag({ViewEvent(p)})
             /\ view_count(p)' = view_count(p) + 1
             /\ \A q \in DOMAIN profils \ {p} : view_count(q)' = view_count(q)]_vars

\* a visitor who unlocked a protected profile has just viewed it, and the
\* other profile has a view of its own
C10_Witness ==
    /\ response.route = "profil_public"
    /\ response.status = 200
    /\ response.profil_id \in DOMAIN profils
    /\ profils[response.profil_id].is_protected
    /\ response.profil_id \in session[response.sess].unlocked
    /\ view_count(response.profil_id) >= 1
    /\ \E q \in DOMAIN profils \ {response.profil_id} : view_count(q) >= 1

----------------------------------------------------------------------------
(* Link ordering: frame conditions *)

\* C12: add_lien on a profile gives the new link link_order equal to the
\* number of links the profile had before the add and leaves every existing
\* link of every profile as it was.
C12_AddAppends ==
    [][(/\ response'.route = "add_lien"
        /\ session[response'.sess].admin_logged_in
        /\ response'.profil_id \in DOMAIN profils)
       => LET p == response'.profil_id
              new == DOMAIN liens' \ DOMAIN liens
          IN  /\ Cardinality(new) = 1
              /\ DOMAIN liens \subseteq DOMAIN liens'
              /\ \A l \in new :
                    /\ liens'[l].profil_id = p
                    /\ liens'[l].link_order = Cardinality(LiensOf(p))
              /\ \A l \in DOMAIN liens : liens'[l] = liens[l]]_vars

\* a link has just been added to a profile that had one, while the other
\* profile has a link of its own
C12_Witness ==
    /\ response.route = "add_lien"
    /\ session[response.sess].admin_logged_in
    /\ response.profil_id \in DOMAIN profils
    /\ Cardinality(LiensOf(response.profil_id)) = 2
    /\ \E q \in DOMAIN profils \ {response.profil_id} : LiensOf(q) # {}

\* C13: a reorder made for a profile (its request lists every link of the
\* profile) succeeds and leaves the link_order of every link of every other
\* profile unchanged.
C13_ReorderIgnoresForeign ==
    [][(response'.route = "reorder_liens" /\ response'.status = 200)
       => \A p \in DOMAIN profils :
             (/\ LiensOf(p) # {}
              /\ LiensOf(p) \subseteq {response'.args[i] : i \in 1..Len(response'.args)})
             => \A l \in DOMAIN liens \ LiensOf(p) :
                   liens'[l].link_order = liens[l].link_order]_vars

----------------------------------------------------------------------------
(* Webhook notifications *)

\* the step ends a request with a response: it is not the first half of a
\* track_click, which leaves the previous response in place
Responded == \A w \in Workers : pending'[w] \in {Idle, pending[w]}

\* C11: when a request has sent a webhook, whatever became of the delivery
\* (answered, timed out, refused, error status): it was attempted once; the
\* request got the response of the successful operation; the notification was
\* built from the committed row of the profile; and the mutation is in the
\* store.
C11_WebhookFailureIgnored ==
    [][(Responded /\ response'.webhook # NoWebhook)
       => LET w == response'.webhook
              route == response'.route
              p == response'.profil_id
          IN  /\ w.attempts = 1
              /\ route \in {"edit_profil", "parametres_profil", "add_lien",
                            "track_click"}
              /\ response'.status = (IF route = "edit_profil" THEN 200 ELSE 302)
              /\ response'.body = (IF route = "edit_profil" THEN PageContent
                                   ELSE IF route = "track_click" THEN ClickContent
                                   ELSE {})
              /\ \E q \in DOMAIN profils' :
                    /\ profils'[q].slug = w.profil_slug
                    /\ profils'[q].webhook_url = w.url
              /\ route \in {"edit_profil", "parametres_profil"}
                 => /\ profils'[p].webhook_url = w.url
                    /\ DOMAIN profils' = DOMAIN profils
                    /\ UNCHANGED <<liens, analytics>>
              /\ route = "add_lien"
                 => /\ DOMAIN liens' = DOMAIN liens \cup {NextId(liens)}
                    /\ liens'[NextId(liens)].profil_id = p
                    /\ \A l \in DOMAIN liens : liens'[l] = liens[l]
                    /\ UNCHANGED <<profils, analytics>>
              /\ route = "track_click"
                 => \E wk \in Workers :
                       /\ pending[wk] # Idle
                       /\ pending'[wk] = Idle
                       /\ BagCardinality(analytics') = BagCardinality(analytics) + 1
                       /\ BagIn(ClickEvent(pending[wk].profil_id, pending[wk].lien_id),
                                analytics')
                       /\ liens'[pending[wk].lien_id].click_count
                             = pending[wk].click_count + 1
                       /\ UNCHANGED profils]_vars

\* the delivery of a click notification failed with an exception inside
\* requests.post, and the visitor was redirected all the same
C11_Witness ==
    /\ response.route = "track_click"
    /\ response.status = 302
    /\ response.webhook.outcome = "connection_error"
    /\ response.webhook.url = <<"v">>

----------------------------------------------------------------------------
(* Validation *)

\* C14: every stored profile has a non-empty name, an email and a phone that
\* are empty or well-formed, and a colour that is a valid hex string.
C14_StoredProfilesValid ==
    \A p \in DOMAIN profils :
        /\ profils[p].nom # <<>>
        /\ validate_email(profils[p].email)
        /\ validate_phone(profils[p].telephone)
        /\ validate_hex_color(profils[p].couleur_principale)

----------------------------------------------------------------------------
(* Cascade on deletion of a profile *)

\* C15: every stored link and every stored analytics event references a
\* profile that exists.
C15_ReferencesExist ==
    /\ \A l \in DOMAIN liens : liens[l].profil_id \in DOMAIN profils
    /\ \A e \in DOMAIN analytics : e.profil_id \in DOMAIN profils

====
